---- MODULE Spec2Model ----
(***************************************************************************)
(* AgentStack worker: the chunker, the embedding generator, the vector     *)
(* search, the job ledger, the ingestion task and the batch task, as state *)
(* machines translated from src/src/agentstack_worker.                     *)
(***************************************************************************)
EXTENDS Integers, Sequences, FiniteSets, TLC

VARIABLES
    \* ---- chunk_text (utils/docling_parser.py) ----
    cPc,            \* "idle" | "loop" | "returned"
    cText,          \* the text argument, a sequence of characters
    chunk_size,     \* the chunk_size argument
    chunk_overlap,  \* the chunk_overlap argument
    cStart,         \* local variable start
    cChunks,        \* local variable chunks
    cSpans,         \* history: the <<start, end>> of every text[start:end] appended
    \* ---- search_similar_documents (utils/database.py) ----
    sPc,            \* "idle" | "returned"
    sDist,          \* stored document id -> its distance (embedding <=> query)
    sThreshold,     \* the threshold argument
    sLimit,         \* the limit argument
    sResults,       \* the rows returned
    \* ---- generate_embedding (utils/embeddings.py) ----
    ePc,            \* "idle" | "calling" | "returned" | "raised"
    eText,          \* the text argument
    eAttempt,       \* attempts of the retry decorator started so far
    eSent,          \* history: the provider calls, [input, ok], in call order
    eResult,        \* the vector returned, or NoValue
    \* ---- generate_embeddings_batch (utils/embeddings.py) ----
    bPc,            \* "idle" | "loop" | "returned" | "raised"
    bTexts,         \* the texts argument
    batch_size,     \* the batch_size argument
    bI,             \* loop variable i
    bEmbeddings,    \* local variable embeddings
    bSent,          \* history: the input lists sent to the provider, in call order
    bResult,        \* the list returned, or NoValue
    \* ---- storage (utils/database.py) ----
    job_status,     \* the job_status table, a set of rows
    knowledge_base, \* the knowledge_base table, a sequence of rows in insert order
    now,            \* the storage engine's clock, NOW()
    \* ---- ingest_document (tasks.py) ----
    iPc,            \* where the task is (see IngestPcs)
    task_id,        \* self.request.id
    retries,        \* self.request.retries
    source_url,     \* the source_url argument
    iMetadata,      \* the metadata argument
    parsed,         \* local variable parsed
    embedding,      \* local variable embedding
    doc_id,         \* local variable doc_id
    exc,            \* the exception being handled or propagated
    iResult,        \* the dictionary returned
    iFaults,        \* history: the steps of this execution of the body that failed
    kbBefore,       \* history: rows of knowledge_base when this execution began
    outcomes,       \* history: how each task ended for its caller, in order
    \* ---- ingest_batch (tasks.py) ----
    gPc,            \* "idle" | "loop" | "waiting" | "progress" | "returned"
    source_urls,    \* the source_urls argument
    gI,             \* loop variable i
    results,        \* local variable results
    progress,       \* history: the meta of every update_state call
    gSlots,         \* execution slots of the worker pool the batch task holds
    \* ---- rag_query (tasks.py) ----
    rPc,            \* "idle" | "embedding" | "loop" | "returned" | "raised"
    system_prompt,  \* the system_prompt argument
    rDist,          \* history: stored document id -> its distance to the question
    search_results, \* local variable search_results
    rK,             \* documents of search_results the for loop has been through
    context_parts,  \* local variable context_parts
    sources,        \* local variable sources
    messages,       \* local variable messages, or NoValue
    rResult,        \* the dictionary returned, or NoValue
    \* ---- get_db_session (utils/database.py) ----
    dPc,            \* "idle" | "body" | "commit" | "rollback" | "close" | "done"
    dOp,            \* the storage operation whose body runs in the session
    dView,          \* the tables as the session's open transaction has them
    dExc,           \* the exception travelling out of the with block, or NoValue
    dCalls,         \* history: the calls made on the session that returned
    dBefore,        \* history: the committed tables when the session was opened
    dSessions,      \* sessions opened so far
    \* ---- executions of one ingest_document task running at once (tasks.py) ----
    wPc,            \* execution -> "idle" | "begin" | "body" | "record" | "except" | "done"
    wDocId,         \* execution -> its local variable doc_id
    wExc,           \* execution -> the exception it is handling, or NoValue
    wWrites,        \* history: the job_status writes committed, [by, status], in order
    \* ---- environment ----
    nextTask,       \* task ids handed out so far
    faults          \* failures of external services injected so far

chunkVars == <<cPc, cText, chunk_size, chunk_overlap, cStart, cChunks, cSpans>>
searchVars == <<sPc, sDist, sThreshold, sLimit, sResults>>
embedVars == <<ePc, eText, eAttempt, eSent, eResult>>
batchEmbedVars == <<bPc, bTexts, batch_size, bI, bEmbeddings, bSent, bResult>>

storageVars == <<job_status, knowledge_base, now>>
ingestVars == <<iPc, task_id, retries, source_url, iMetadata, parsed, embedding,
                doc_id, exc, iResult, iFaults, kbBefore, outcomes>>
batchVars == <<gPc, source_urls, gI, results, progress, gSlots>>
pipelineVars == <<storageVars, ingestVars, batchVars, nextTask>>

ragVars == <<rPc, system_prompt, rDist, search_results, rK, context_parts, sources,
             messages, rResult>>

sessionVars == <<dPc, dOp, dView, dExc, dCalls, dBefore, dSessions>>

raceVars == <<wPc, wDocId, wExc, wWrites>>

vars == <<chunkVars, searchVars, embedVars, batchEmbedVars, pipelineVars, ragVars,
          sessionVars, raceVars, faults>>

-----------------------------------------------------------------------------
\* Bounds of the model.

\* longest text handed to chunk_text
MaxTextLen == 17
\* every text up to this length over ShortAlphabet is an input
MaxShortLen == 3
\* loop iterations of chunk_text the model follows (the code has no such cap)
MaxChunks == 20
\* documents stored when a search runs
MaxDocs == 3
\* largest limit argument of a search
MaxLimit == 3
\* texts handed to generate_embeddings_batch
MaxBatchTexts == 3
\* failures of external services (provider, parser, storage) in one behaviour
MaxFaults == 4
\* ingest_document tasks a worker is handed in one behaviour
MaxTasks == 1
\* longest source_urls list handed to ingest_batch
MaxBatch == 2
\* execution slots of the worker pool (its concurrency ceiling)
Concurrency == 1
\* storage sessions opened one after the other in one behaviour
MaxSessions == 3

\* None, and a value that is present
NoValue == <<>>
Some(x) == <<x>>

-----------------------------------------------------------------------------
\* Python built-ins used by the code.

Max(S) == CHOOSE x \in S : \A y \in S : y <= x

Min2(a, b) == IF a <= b THEN a ELSE b

\* a slice index as Python clamps it to 0..n (negative counts from the end)
Norm(i, n) ==
    IF i < 0 THEN (IF i + n < 0 THEN 0 ELSE i + n)
    ELSE IF i > n THEN n ELSE i

\* s[lo:hi]
PySlice(s, lo, hi) ==
    LET a == Norm(lo, Len(s))
        b == Norm(hi, Len(s))
    IN  IF a >= b THEN <<>> ELSE SubSeq(s, a + 1, b)

\* s.rfind(sep, lo, hi): the highest 0-based index in s[lo:hi] where sep
\* starts and lies wholly inside the slice, or -1
RFind(s, sep, lo, hi) ==
    LET a == Norm(lo, Len(s))
        b == Norm(hi, Len(s))
        hits == {i \in a..(b - Len(sep)) : SubSeq(s, i + 1, i + Len(sep)) = sep}
    IN  IF hits = {} THEN -1 ELSE Max(hits)

Whitespace == {" ", "\n", "\t"}

\* s.strip()
Strip(s) ==
    LET keep == {i \in 1..Len(s) : s[i] \notin Whitespace}
    IN  IF keep = {} THEN <<>>
        ELSE SubSeq(s, CHOOSE i \in keep : \A j \in keep : i <= j, Max(keep))

-----------------------------------------------------------------------------
\* chunk_text

\* the separators of the sentence-boundary search, in the order the code tries them
Seps == << <<".", " ">>, <<".", "\n">>, <<"!", " ">>, <<"?", " ">>, <<"\n", "\n">> >>

\* int(chunk_size * 0.2)
SearchWindow(size) == (size * 2) \div 10

\* the for-loop over the separators: the first separator (in list order) found in
\* text[search_start:end] moves end to just after its last occurrence there
RECURSIVE BoundaryFrom(_, _, _, _)
BoundaryFrom(k, text, search_start, end) ==
    IF k > Len(Seps) THEN end
    ELSE LET idx == RFind(text, Seps[k], search_start, end)
         IN  IF idx # -1 THEN idx + Len(Seps[k])
             ELSE BoundaryFrom(k + 1, text, search_start, end)

\* ChunkEnd with the boundary search looking past the nominal end
ChunkEndForward(text, start, size) ==
    IF start + size < Len(text)
    THEN start + size + SearchWindow(size) + 1
    ELSE start + size

\* end as computed by one iteration of the while loop
ChunkEnd(text, start, size) ==
    LET end == start + size
    IN  IF end < Len(text)
        THEN BoundaryFrom(1, text, end - SearchWindow(size), end)
        ELSE end

\* start = end + chunk_overlap, the sign slipped
NextStartForward(end, overlap) == end + overlap

\* start = end - chunk_overlap
NextStart(end, overlap) == end - overlap

\* the early return of a text no longer than chunk_size
ShortResult(text) == <<text>>

\* the chunk appended by one iteration
EmittedChunk(text, start, end) == Strip(PySlice(text, start, end))

ShortAlphabet == {"a", " ", "."}

\* a text of length n that is "a" everywhere but for separator s at 0-based
\* offset p and separator t at 0-based offset q
Marked(n, p, s, q, t) ==
    [i \in 1..n |->
        IF i = p + 1 THEN s[1] ELSE IF i = p + 2 THEN s[2]
        ELSE IF i = q + 1 THEN t[1] ELSE IF i = q + 2 THEN t[2]
        ELSE "a"]

SepSet == {Seps[k] : k \in 1..Len(Seps)}

ShortTexts == UNION {[1..n -> ShortAlphabet] : n \in 0..MaxShortLen}

LongTexts ==
    {Marked(n, p, s, q, t) :
        n \in (MaxTextLen - 1)..MaxTextLen,
        p \in 0..(MaxTextLen - 2), q \in 0..(MaxTextLen - 2),
        s \in SepSet, t \in {<<".", " ">>, <<"a", "a">>}}

\* the chunk sizes tried: one below the short texts' length, and the smallest
\* whose search window (3) can shorten a chunk
ChunkSizes == {MaxShortLen - 1, MaxTextLen - 2}

ChunkIdle ==
    /\ cPc = "idle"
    /\ cText = <<>>
    /\ chunk_size = 0
    /\ chunk_overlap = 0
    /\ cStart = 0
    /\ cChunks = <<>>
    /\ cSpans = <<>>

\* chunk_text(text, chunk_size, chunk_overlap) up to the while loop
CallChunkText ==
    /\ cPc = "idle"
    /\ \E text \in ShortTexts \cup LongTexts, size \in ChunkSizes :
        \E overlap \in 0..(size - 1) :
            /\ cText' = text
            /\ chunk_size' = size
            /\ chunk_overlap' = overlap
            /\ cStart' = 0
            /\ cSpans' = <<>>
            /\ IF Len(text) <= size
               THEN /\ cChunks' = ShortResult(text)
                    /\ cPc' = "returned"
               ELSE /\ cChunks' = <<>>
                    /\ cPc' = "loop"

\* one iteration of the while loop
ChunkLoop ==
    /\ cPc = "loop"
    /\ cStart < Len(cText)
    /\ Len(cChunks) < MaxChunks
    /\ LET end == ChunkEnd(cText, cStart, chunk_size)
       IN  /\ cChunks' = Append(cChunks, EmittedChunk(cText, cStart, end))
           /\ cSpans' = Append(cSpans, <<cStart, end>>)
           /\ cStart' = NextStart(end, chunk_overlap)
    /\ UNCHANGED <<cPc, cText, chunk_size, chunk_overlap>>

\* the loop condition fails: return chunks
ChunkReturn ==
    /\ cPc = "loop"
    /\ cStart >= Len(cText)
    /\ cPc' = "returned"
    /\ UNCHANGED <<cText, chunk_size, chunk_overlap, cStart, cChunks, cSpans>>

NextChunk ==
    \/ (CallChunkText /\ UNCHANGED <<searchVars, embedVars, batchEmbedVars, pipelineVars, ragVars, sessionVars, raceVars, faults>>)
    \/ (ChunkLoop /\ UNCHANGED <<searchVars, embedVars, batchEmbedVars, pipelineVars, ragVars, sessionVars, raceVars, faults>>)
    \/ (ChunkReturn /\ UNCHANGED <<searchVars, embedVars, batchEmbedVars, pipelineVars, ragVars, sessionVars, raceVars, faults>>)

-----------------------------------------------------------------------------
\* search_similar_documents

\* cosine distance lies in [0, 2]: distances and similarities are counted in
\* units of 1/Scale
Scale == 3

Distances == 0..(2 * Scale)

Thresholds == (0 - Scale)..Scale

\* 1 - (embedding <=> :query_embedding)
Similarity(d) == Scale - d

\* WHERE 1 - (embedding <=> :query_embedding) > :threshold, with >= for >
PassesAtLeast(d, threshold) == Similarity(d) >= threshold

\* WHERE 1 - (embedding <=> :query_embedding) > :threshold
Passes(d, threshold) == Similarity(d) > threshold

\* ORDER BY embedding <=> :query_embedding, descending instead of ascending
OrderedBeforeDesc(d1, d2) == d1 >= d2

\* ORDER BY embedding <=> :query_embedding (ascending): a row at distance d1 may
\* precede one at distance d2
OrderedBefore(d1, d2) == d1 <= d2

\* LIMIT :limit
LimitRows(rows, limit) == SubSeq(rows, 1, Min2(limit, Len(rows)))

\* the orders in which the engine may deliver the rows that pass the filter
\* (rows at the same distance come in any order)
OrderedRows(dist, threshold) ==
    LET ids == {d \in DOMAIN dist : Passes(dist[d], threshold)}
    IN  {p \in [1..Cardinality(ids) -> ids] :
            /\ \A i, j \in DOMAIN p : i # j => p[i] # p[j]
            /\ \A i, j \in DOMAIN p : i < j => OrderedBefore(dist[p[i]], dist[p[j]])}

\* [dict(row._mapping) for row in result]
RowDicts(p, dist) == [i \in DOMAIN p |-> [id |-> p[i], similarity |-> Similarity(dist[p[i]])]]

SearchIdle ==
    /\ sPc = "idle"
    /\ sDist = <<>>
    /\ sThreshold = 0
    /\ sLimit = 0
    /\ sResults = <<>>

\* search_similar_documents(query_embedding, limit, threshold) against any corpus
SearchSimilarDocuments ==
    /\ sPc = "idle"
    /\ \E n \in 0..MaxDocs :
        \E dist \in [1..n -> Distances], threshold \in Thresholds, limit \in 0..MaxLimit :
            \E p \in OrderedRows(dist, threshold) :
                /\ sDist' = dist
                /\ sThreshold' = threshold
                /\ sLimit' = limit
                /\ sResults' = RowDicts(LimitRows(p, limit), dist)
                /\ sPc' = "returned"

NextSearch ==
    SearchSimilarDocuments /\ UNCHANGED <<chunkVars, embedVars, batchEmbedVars, pipelineVars, ragVars, sessionVars, raceVars, faults>>

-----------------------------------------------------------------------------
\* The embedding generator. A text is known by its content id and its length;
\* a prefix of a text is the same content id with a smaller length.

\* max_chars = 30000, and the t[:30000] of the batch path
MaxChars == 30000

\* stop_after_attempt(3)
MaxAttempts == 3

TextIds == {"t1", "t2"}

TextLens == {5, MaxChars, MaxChars + 1}

Texts == [id : TextIds, len : TextLens]

\* text[:n]
Prefix(t, n) == [t EXCEPT !.len = Min2(t.len, n)]

\* what the provider answers for one input: the vector of exactly that input
ProviderEmbedding(t) == [embedding_of |-> t]

\* the retry decorator allowing one attempt more
StopRetryingLate(attempt) == attempt >= MaxAttempts + 1

\* stop=stop_after_attempt(3): no further attempt after this failed one
StopRetrying(attempt) == attempt >= MaxAttempts

\* the input generate_embedding sends: text[:max_chars] if len(text) > max_chars
EmbeddingInput(t) == IF t.len > MaxChars THEN Prefix(t, MaxChars) ELSE t

EmbedIdle ==
    /\ ePc = "idle"
    /\ eText = NoValue
    /\ eAttempt = 0
    /\ eSent = <<>>
    /\ eResult = NoValue

\* a call of generate_embedding(text): the decorator starts the first attempt
StartEmbedding(t) ==
    /\ ePc \in {"idle", "returned", "raised"}
    /\ ePc' = "calling"
    /\ eText' = t
    /\ eAttempt' = 0
    /\ eSent' = <<>>
    /\ eResult' = NoValue

\* one attempt whose provider call succeeds: return response.data[0].embedding
EmbedAttemptOk ==
    /\ ePc = "calling"
    /\ eAttempt' = eAttempt + 1
    /\ eSent' = Append(eSent, [input |-> EmbeddingInput(eText), ok |-> TRUE])
    /\ eResult' = ProviderEmbedding(EmbeddingInput(eText))
    /\ ePc' = "returned"
    /\ UNCHANGED <<eText, faults>>

\* one attempt whose provider call raises: the decorator retries, or gives up
\* with RetryError after the last attempt
EmbedAttemptFail ==
    /\ ePc = "calling"
    /\ faults < MaxFaults
    /\ faults' = faults + 1
    /\ eAttempt' = eAttempt + 1
    /\ eSent' = Append(eSent, [input |-> EmbeddingInput(eText), ok |-> FALSE])
    /\ ePc' = IF StopRetrying(eAttempt + 1) THEN "raised" ELSE "calling"
    /\ UNCHANGED <<eText, eResult>>

\* generate_embedding(text) called on its own
CallGenerateEmbedding ==
    /\ ePc = "idle"
    /\ bPc = "idle"
    /\ iPc = "idle"
    /\ \E t \in Texts : StartEmbedding(t)
    /\ UNCHANGED faults

-----------------------------------------------------------------------------
\* generate_embeddings_batch

BatchSizes == 1..MaxBatchTexts

BatchEmbedIdle ==
    /\ bPc = "idle"
    /\ bTexts = <<>>
    /\ batch_size = 0
    /\ bI = 0
    /\ bEmbeddings = <<>>
    /\ bSent = <<>>
    /\ bResult = NoValue

\* texts[i:i + batch_size] taken one element short
GroupOneShort(texts, i, size) == PySlice(texts, i, i + size - 1)

\* batch = texts[i:i + batch_size]
Group(texts, i, size) == PySlice(texts, i, i + size)

\* batch = [t[:30000] for t in batch]
TruncateAll(batch) == [k \in DOMAIN batch |-> Prefix(batch[k], MaxChars)]

\* [d.embedding for d in response.data], the provider answering in input order
GroupEmbeddings(batch) == [k \in DOMAIN batch |-> ProviderEmbedding(batch[k])]

\* generate_embeddings_batch(texts, batch_size=size)
CallEmbeddingsBatch ==
    /\ bPc = "idle"
    /\ ePc = "idle"
    /\ \E n \in 0..MaxBatchTexts :
        \E texts \in [1..n -> Texts], size \in BatchSizes :
            /\ bTexts' = texts
            /\ batch_size' = size
    /\ bI' = 0
    /\ bEmbeddings' = <<>>
    /\ bSent' = <<>>
    /\ bResult' = NoValue
    /\ bPc' = "loop"
    /\ UNCHANGED faults

\* one iteration of the for loop whose provider call succeeds
BatchGroupOk ==
    /\ bPc = "loop"
    /\ bI < Len(bTexts)
    /\ LET batch == TruncateAll(Group(bTexts, bI, batch_size))
       IN  /\ bSent' = Append(bSent, batch)
           /\ bEmbeddings' = bEmbeddings \o GroupEmbeddings(batch)
    /\ bI' = bI + batch_size
    /\ UNCHANGED <<bPc, bTexts, batch_size, bResult, faults>>

\* one iteration whose provider call raises: the exception leaves the function
BatchGroupFail ==
    /\ bPc = "loop"
    /\ bI < Len(bTexts)
    /\ faults < MaxFaults
    /\ faults' = faults + 1
    /\ bSent' = Append(bSent, TruncateAll(Group(bTexts, bI, batch_size)))
    /\ bPc' = "raised"
    /\ UNCHANGED <<bTexts, batch_size, bI, bEmbeddings, bResult>>

\* the range is exhausted: return embeddings
EmbeddingsBatchReturn ==
    /\ bPc = "loop"
    /\ bI >= Len(bTexts)
    /\ bResult' = Some(bEmbeddings)
    /\ bPc' = "returned"
    /\ UNCHANGED <<bTexts, batch_size, bI, bEmbeddings, bSent, faults>>

NextEmbed ==
    \/ (CallGenerateEmbedding /\ UNCHANGED <<chunkVars, searchVars, batchEmbedVars, pipelineVars, ragVars, sessionVars, raceVars>>)
    \/ (EmbedAttemptOk /\ UNCHANGED <<chunkVars, searchVars, batchEmbedVars, pipelineVars, ragVars, sessionVars, raceVars>>)
    \/ (EmbedAttemptFail /\ UNCHANGED <<chunkVars, searchVars, batchEmbedVars, pipelineVars, ragVars, sessionVars, raceVars>>)
    \/ (CallEmbeddingsBatch /\ UNCHANGED <<chunkVars, searchVars, embedVars, pipelineVars, ragVars, sessionVars, raceVars>>)
    \/ (BatchGroupOk /\ UNCHANGED <<chunkVars, searchVars, embedVars, pipelineVars, ragVars, sessionVars, raceVars>>)
    \/ (BatchGroupFail /\ UNCHANGED <<chunkVars, searchVars, embedVars, pipelineVars, ragVars, sessionVars, raceVars>>)
    \/ (EmbeddingsBatchReturn /\ UNCHANGED <<chunkVars, searchVars, embedVars, pipelineVars, ragVars, sessionVars, raceVars>>)

-----------------------------------------------------------------------------
\* Storage: the job_status and knowledge_base tables. Every operation runs in
\* get_db_session: it commits when the body completes and rolls back when the
\* body or the commit raises, so a failed operation leaves the tables as they were.

\* str(x)
Str(x) == [str |-> x]

\* json.dumps(x)
JsonDumps(x) == [json |-> x]

\* the row INSERT INTO job_status (celery_task_id, task_name, status, input_data)
\* creates; the columns it does not name hold no value
NewJobRow(id, input) ==
    [celery_task_id |-> id, task_name |-> "ingest_document", status |-> "running",
     input_data |-> input, progress |-> NoValue, result_data |-> NoValue,
     error_message |-> NoValue, started_at |-> NoValue, completed_at |-> NoValue]

\* the INSERT without its ON CONFLICT clause, on a table with no unique key
UpsertJobNoConflict(table, id, input, t) == table \cup {NewJobRow(id, input)}

\* ON CONFLICT (celery_task_id) DO UPDATE SET started_at = NOW(), the status
\* left as it was
UpsertJobKeepStatus(table, id, input, t) ==
    IF \E r \in table : r.celery_task_id = id
    THEN {IF r.celery_task_id = id THEN [r EXCEPT !.started_at = Some(t)] ELSE r :
            r \in table}
    ELSE table \cup {NewJobRow(id, input)}

\* the conflicting row replaced by the inserted one (INSERT OR REPLACE)
UpsertJobReplaceRow(table, id, input, t) ==
    {r \in table : r.celery_task_id # id}
        \cup {[NewJobRow(id, input) EXCEPT !.started_at = Some(t)]}

\* INSERT ... ON CONFLICT (celery_task_id) DO UPDATE SET status = 'running',
\* started_at = NOW()
UpsertJob(table, id, input, t) ==
    IF \E r \in table : r.celery_task_id = id
    THEN {IF r.celery_task_id = id
          THEN [r EXCEPT !.status = "running", !.started_at = Some(t)]
          ELSE r : r \in table}
    ELSE table \cup {NewJobRow(id, input)}

\* the SET list without the error_message assignment
SetJobFieldsNoError(r, status, prog, result_data, error_message, t) ==
    [r EXCEPT
        !.status = status,
        !.progress = IF prog # NoValue THEN prog ELSE @,
        !.result_data = IF result_data # NoValue THEN result_data ELSE @,
        !.started_at = IF status = "running" THEN Some(t) ELSE @,
        !.completed_at = IF status \in {"success", "failed"} THEN Some(t) ELSE @]

\* the SET list applied only to a row that is not success or failed yet
SetJobFieldsFirstWins(r, status, prog, result_data, error_message, t) ==
    IF r.status \in {"success", "failed"}
    THEN r
    ELSE [r EXCEPT
            !.status = status,
            !.progress = IF prog # NoValue THEN prog ELSE @,
            !.result_data = IF result_data # NoValue THEN result_data ELSE @,
            !.error_message = IF error_message # NoValue THEN error_message ELSE @,
            !.started_at = IF status = "running" THEN Some(t) ELSE @,
            !.completed_at = IF status \in {"success", "failed"} THEN Some(t) ELSE @]

\* the SET list update_job_status builds, applied to one row
SetJobFields(r, status, prog, result_data, error_message, t) ==
    [r EXCEPT
        !.status = status,
        !.progress = IF prog # NoValue THEN prog ELSE @,
        !.result_data = IF result_data # NoValue THEN result_data ELSE @,
        !.error_message = IF error_message # NoValue THEN error_message ELSE @,
        !.started_at = IF status = "running" THEN Some(t) ELSE @,
        !.completed_at = IF status \in {"success", "failed"} THEN Some(t) ELSE @]

\* update_job_status: UPDATE job_status SET ... WHERE celery_task_id = :celery_task_id
UpdateJobStatus(table, id, status, prog, result_data, error_message, t) ==
    {IF r.celery_task_id = id
     THEN SetJobFields(r, status, prog, result_data, error_message, t)
     ELSE r : r \in table}

\* x or {}
OrEmpty(x) == IF x = NoValue THEN <<>> ELSE x[1]

\* insert_document: INSERT INTO knowledge_base ... RETURNING id
NewDocument(table, url, source_type, filename, content_markdown, emb, metadata) ==
    [id |-> Len(table) + 1, source_url |-> url, source_type |-> source_type,
     filename |-> filename, content_markdown |-> content_markdown,
     embedding |-> Str(emb),
     metadata |-> OrEmpty(metadata),
     char_count |-> content_markdown.len]

\* the tables as committed
Committed == [job_status |-> job_status, knowledge_base |-> knowledge_base]

\* a search that records a job row of its own in job_status
SearchEffectLogsJob(tables) ==
    [tables EXCEPT !.job_status =
        @ \cup {[NewJobRow([task |-> 0], JsonDumps(<<>>)) EXCEPT
                    !.task_name = "semantic_search"]}]

\* search_similar_documents: its one statement is a SELECT, which leaves the
\* tables of the transaction as they are
SearchEffect(tables) == tables

\* the rows of the job of one task
JobsOf(id) == {r \in job_status : r.celery_task_id = id}

-----------------------------------------------------------------------------
\* parse_document, as far as ingest_document sees it

UrlA == "https://x/a.pdf"
UrlB == "https://x/b.docx"
UrlGone == "https://x/gone.html"

URLs == {UrlA, UrlB, UrlGone}

\* the sources whose download fails every time (response.raise_for_status())
Unreachable == {UrlGone}

\* markdown[:8000] if len(markdown) > 8000
EmbedLimit == 8000

\* Path(parsed.path).name
Filename(url) ==
    IF url = UrlA THEN "a.pdf" ELSE IF url = UrlB THEN "b.docx" ELSE "gone.html"

\* Path(filename).suffix.lower().lstrip('.')
SourceType(url) ==
    IF url = UrlA THEN "pdf" ELSE IF url = UrlB THEN "docx" ELSE "html"

\* the converter's markdown: a.pdf is one character longer than the embedding
\* limit, b.docx is short
Markdown(url) ==
    [id |-> url, len |-> IF url = UrlA THEN EmbedLimit + 1 ELSE 5]

\* the dictionary parse_document returns
Parsed(url) ==
    [markdown |-> Markdown(url), filename |-> Filename(url),
     source_type |-> SourceType(url),
     metadata |-> Some([title |-> "extracted", num_pages |-> 1, tables_count |-> 0])]

\* the metadata arguments tried: None, and a dictionary that shares a key with
\* the extracted metadata
Metadatas == {NoValue, Some([title |-> "supplied", team |-> "docs"])}

-----------------------------------------------------------------------------
\* ingest_document

\* max_retries=3
MaxRetries == 3

\* self.request.id of the n-th task started
TaskId(n) == [task |-> n]

\* the exceptions of the pipeline's steps: the download or the converter
\* raising, tenacity's RetryError out of generate_embedding after its last
\* attempt, and the storage engine raising
FetchError == "FetchError"
EmbeddingError == "EmbeddingError"
StorageError == "StorageError"

IngestPcs == {"idle", "begin", "parse", "embed", "embedding", "store", "record",
              "except", "raised", "returned", "failed"}

\* {**(doc_metadata or {}), **(metadata or {})}, with the operands swapped
MergeMetadataSwapped(doc_metadata, metadata) ==
    LET d == OrEmpty(doc_metadata)
        m == OrEmpty(metadata)
    IN  [k \in DOMAIN d \cup DOMAIN m |-> IF k \in DOMAIN d THEN d[k] ELSE m[k]]

\* {**(doc_metadata or {}), **(metadata or {})}
MergeMetadata(doc_metadata, metadata) ==
    LET d == OrEmpty(doc_metadata)
        m == OrEmpty(metadata)
    IN  [k \in DOMAIN d \cup DOMAIN m |-> IF k \in DOMAIN m THEN m[k] ELSE d[k]]

\* embed_text = markdown
EmbedTextWhole(markdown) == markdown

\* embed_text = markdown[:8000] if len(markdown) > 8000 else markdown
EmbedText(markdown) ==
    IF markdown.len > EmbedLimit THEN Prefix(markdown, EmbedLimit) ELSE markdown

\* the result dictionary with the character count where the document id goes
IngestResultCountAsId(id, p) ==
    [document_id |-> Str(p.markdown.len), filename |-> p.filename,
     source_type |-> p.source_type, char_count |-> p.markdown.len,
     status |-> "success"]

\* the result dictionary of a successful ingestion
IngestResult(id, p) ==
    [document_id |-> id, filename |-> p.filename, source_type |-> p.source_type,
     char_count |-> p.markdown.len, status |-> "success"]

IngestIdle ==
    /\ iPc = "idle"
    /\ task_id = NoValue
    /\ retries = 0
    /\ source_url = ""
    /\ iMetadata = NoValue
    /\ parsed = NoValue
    /\ embedding = NoValue
    /\ doc_id = NoValue
    /\ exc = NoValue
    /\ iResult = NoValue
    /\ iFaults = {}
    /\ kbBefore = 0
    /\ outcomes = <<>>

\* the task body starts (first execution or a retry) for task id, url, metadata
StartBody(id, url, metadata, n) ==
    /\ iPc' = "begin"
    /\ task_id' = id
    /\ retries' = n
    /\ source_url' = url
    /\ iMetadata' = metadata
    /\ parsed' = NoValue
    /\ embedding' = NoValue
    /\ doc_id' = NoValue
    /\ exc' = NoValue
    /\ iResult' = NoValue
    /\ iFaults' = {}
    /\ kbBefore' = Len(knowledge_base)
    /\ UNCHANGED outcomes

\* an external service fails at step: the exception e goes to pc
Fault(step, e, pc) ==
    /\ faults < MaxFaults
    /\ faults' = faults + 1
    /\ iFaults' = iFaults \cup {step}
    /\ exc' = Some(e)
    /\ iPc' = pc

\* the job upsert before the try block commits
IngestBeginOk ==
    /\ iPc = "begin"
    /\ job_status' = UpsertJob(job_status, task_id, JsonDumps([source_url |-> source_url]), now)
    /\ now' = now + 1
    /\ iPc' = "parse"
    /\ UNCHANGED <<knowledge_base, task_id, retries, source_url, iMetadata, parsed,
                   embedding, doc_id, exc, iResult, iFaults, kbBefore, outcomes, faults>>

\* the job upsert raises: it stands outside the try block, so the exception
\* leaves the body with no ledger write
IngestBeginFail ==
    /\ iPc = "begin"
    /\ Fault("begin", StorageError, "raised")
    /\ UNCHANGED <<storageVars, task_id, retries, source_url, iMetadata, parsed,
                   embedding, doc_id, iResult, kbBefore, outcomes>>

\* step 1: parse_document(source_url) returns
IngestParseOk ==
    /\ iPc = "parse"
    /\ source_url \notin Unreachable
    /\ parsed' = Parsed(source_url)
    /\ iPc' = "embed"
    /\ UNCHANGED <<storageVars, task_id, retries, source_url, iMetadata, embedding,
                   doc_id, exc, iResult, iFaults, kbBefore, outcomes, faults>>

\* step 1 raises because the source cannot be downloaded
IngestParseUnreachable ==
    /\ iPc = "parse"
    /\ source_url \in Unreachable
    /\ iFaults' = iFaults \cup {"parse"}
    /\ exc' = Some(FetchError)
    /\ iPc' = "except"
    /\ UNCHANGED <<storageVars, task_id, retries, source_url, iMetadata, parsed,
                   embedding, doc_id, iResult, kbBefore, outcomes, faults>>

\* step 1 raises on a source that can be downloaded (timeout, converter error)
IngestParseFail ==
    /\ iPc = "parse"
    /\ source_url \notin Unreachable
    /\ Fault("parse", FetchError, "except")
    /\ UNCHANGED <<storageVars, task_id, retries, source_url, iMetadata, parsed,
                   embedding, doc_id, iResult, kbBefore, outcomes>>

\* step 2: generate_embedding(embed_text) is called
IngestCallEmbed ==
    /\ iPc = "embed"
    /\ StartEmbedding(EmbedText(parsed.markdown))
    /\ iPc' = "embedding"
    /\ UNCHANGED <<storageVars, task_id, retries, source_url, iMetadata, parsed,
                   embedding, doc_id, exc, iResult, iFaults, kbBefore, outcomes, faults>>

\* generate_embedding returned the vector
IngestEmbedReturned ==
    /\ iPc = "embedding"
    /\ ePc = "returned"
    /\ embedding' = eResult
    /\ iPc' = "store"
    /\ UNCHANGED <<storageVars, task_id, retries, source_url, iMetadata, parsed,
                   doc_id, exc, iResult, iFaults, kbBefore, outcomes, faults, embedVars>>

\* generate_embedding raised after its last attempt
IngestEmbedRaised ==
    /\ iPc = "embedding"
    /\ ePc = "raised"
    /\ iFaults' = iFaults \cup {"embed"}
    /\ exc' = Some(EmbeddingError)
    /\ iPc' = "except"
    /\ UNCHANGED <<storageVars, task_id, retries, source_url, iMetadata, parsed,
                   embedding, doc_id, iResult, kbBefore, outcomes, faults, embedVars>>

\* step 3: insert_document commits the row and returns its id
IngestStoreOk ==
    /\ iPc = "store"
    /\ LET row == NewDocument(knowledge_base, source_url, parsed.source_type,
                              parsed.filename, parsed.markdown, embedding,
                              Some(MergeMetadata(parsed.metadata, iMetadata)))
       IN  /\ knowledge_base' = Append(knowledge_base, row)
           /\ doc_id' = Str(row.id)
    /\ iPc' = "record"
    /\ UNCHANGED <<job_status, now, task_id, retries, source_url, iMetadata, parsed,
                   embedding, exc, iResult, iFaults, kbBefore, outcomes, faults>>

\* step 3 raises: the session rolls back, no row is stored
IngestStoreFail ==
    /\ iPc = "store"
    /\ Fault("store", StorageError, "except")
    /\ UNCHANGED <<storageVars, task_id, retries, source_url, iMetadata, parsed,
                   embedding, doc_id, iResult, kbBefore, outcomes>>

\* update_job_status(status="success", progress=100, result_data=result) commits;
\* return result
IngestRecordSuccessOk ==
    /\ iPc = "record"
    /\ LET result == IngestResult(doc_id, parsed)
       IN  /\ job_status' = UpdateJobStatus(job_status, task_id, "success", Some(100),
                                            Some(result), NoValue, now)
           /\ iResult' = result
    /\ now' = now + 1
    /\ iPc' = "returned"
    /\ outcomes' = Append(outcomes, [task |-> task_id, url |-> source_url, ok |-> TRUE])
    /\ UNCHANGED <<knowledge_base, task_id, retries, source_url, iMetadata, parsed,
                   embedding, doc_id, exc, iFaults, kbBefore, faults>>

\* the success update raises inside the try block
IngestRecordSuccessFail ==
    /\ iPc = "record"
    /\ Fault("record_success", StorageError, "except")
    /\ UNCHANGED <<storageVars, task_id, retries, source_url, iMetadata, parsed,
                   embedding, doc_id, iResult, kbBefore, outcomes>>

\* except Exception as e: update_job_status(status="failed", error_message=str(e))
\* commits; raise
IngestRecordFailureOk ==
    /\ iPc = "except"
    /\ job_status' = UpdateJobStatus(job_status, task_id, "failed", NoValue,
                                     NoValue, Some(Str(exc[1])), now)
    /\ now' = now + 1
    /\ iPc' = "raised"
    /\ UNCHANGED <<knowledge_base, task_id, retries, source_url, iMetadata, parsed,
                   embedding, doc_id, exc, iResult, iFaults, kbBefore, outcomes, faults>>

\* the failure update raises inside the handler: its exception leaves the body
IngestRecordFailureFail ==
    /\ iPc = "except"
    /\ Fault("record_failure", StorageError, "raised")
    /\ UNCHANGED <<storageVars, task_id, retries, source_url, iMetadata, parsed,
                   embedding, doc_id, iResult, kbBefore, outcomes>>

\* autoretry_for=(Exception,), max_retries=3: the body runs again under the same
\* task id
IngestRetry ==
    /\ iPc = "raised"
    /\ retries < MaxRetries
    /\ StartBody(task_id, source_url, iMetadata, retries + 1)
    /\ UNCHANGED <<storageVars, faults>>

\* the retries are used up: the exception reaches the caller
IngestGiveUp ==
    /\ iPc = "raised"
    /\ retries >= MaxRetries
    /\ iPc' = "failed"
    /\ outcomes' = Append(outcomes, [task |-> task_id, url |-> source_url, ok |-> FALSE])
    /\ UNCHANGED <<storageVars, task_id, retries, source_url, iMetadata, parsed,
                   embedding, doc_id, exc, iResult, iFaults, kbBefore, faults>>

\* a worker is handed ingest_document(url, metadata) under a fresh task id
SubmitIngest ==
    /\ iPc \in {"idle", "returned", "failed"}
    /\ gPc = "idle"
    /\ nextTask < MaxTasks
    /\ nextTask' = nextTask + 1
    /\ \E url \in URLs, metadata \in Metadatas :
        StartBody(TaskId(nextTask + 1), url, metadata, 0)
    /\ UNCHANGED <<storageVars, batchVars, faults, embedVars>>

-----------------------------------------------------------------------------
\* ingest_batch

BatchIdle ==
    /\ gPc = "idle"
    /\ source_urls = <<>>
    /\ gI = 0
    /\ results = [total |-> 0, success |-> 0, failed |-> 0, documents |-> <<>>]
    /\ progress = <<>>
    /\ gSlots = 0

\* self.request.id of the batch task
BatchTaskId == TaskId(0)

\* ingest_document.apply(...) run with apply_async: the nested task occupies a
\* slot of its own
SlotsAfterApplyAsync(held) == held + 1

\* ingest_document.apply(...): the task runs in the calling process, in the slot
\* the caller holds
SlotsAfterApply(held) == held

\* the sources a batch is made of: one that can be ingested, one that cannot
BatchUrls == {UrlA, UrlGone}

\* the success branch counting the success and forgetting its entry
RecordSuccessNoEntry(res, result) == [res EXCEPT !.success = @ + 1]

\* the metadata a batch is given: the default, None
BatchMetadatas == {NoValue}

\* results["success"] += 1; results["documents"].append(result)
RecordSuccess(res, result) ==
    [res EXCEPT !.success = @ + 1, !.documents = Append(@, result)]

\* the except branch counting the failure and forgetting its entry
RecordFailureNoEntry(res, url, e) ==
    [res EXCEPT !.failed = @ + 1]

\* results["failed"] += 1; results["documents"].append({"source_url": url,
\* "status": "failed", "error": str(e)})
RecordFailure(res, url, e) ==
    [res EXCEPT
        !.failed = @ + 1,
        !.documents = Append(@, [source_url |-> url, status |-> "failed",
                                 error |-> Str(e)])]

\* ingest_batch(source_urls, metadata): results is set up
SubmitBatch ==
    /\ gPc = "idle"
    /\ iPc = "idle"
    /\ nextTask = 0
    /\ gSlots < Concurrency
    /\ gSlots' = gSlots + 1
    /\ \E n \in 0..MaxBatch :
        \E urls \in [1..n -> BatchUrls], metadata \in BatchMetadatas :
            /\ source_urls' = urls
            /\ iMetadata' = metadata
            /\ results' = [total |-> Len(urls), success |-> 0, failed |-> 0,
                           documents |-> <<>>]
    /\ gI' = 0
    /\ gPc' = "loop"
    /\ UNCHANGED <<storageVars, iPc, task_id, retries, source_url, parsed, embedding,
                   doc_id, exc, iResult, iFaults, kbBefore, outcomes, progress,
                   nextTask, faults, embedVars>>

\* ingest_document.apply(args=[url, metadata]): the task runs in place, under a
\* task id of its own
BatchCallIngest ==
    /\ gPc = "loop"
    /\ gI < Len(source_urls)
    /\ SlotsAfterApply(gSlots) <= Concurrency
    /\ gSlots' = SlotsAfterApply(gSlots)
    /\ nextTask' = nextTask + 1
    /\ StartBody(TaskId(nextTask + 1), source_urls[gI + 1], iMetadata, 0)
    /\ gPc' = "waiting"
    /\ UNCHANGED <<storageVars, source_urls, gI, results, progress,
                   faults, embedVars>>

\* .get() returns the task's result: results["success"] += 1 and the append
BatchItemSucceeded ==
    /\ gPc = "waiting"
    /\ iPc = "returned"
    /\ results' = RecordSuccess(results, iResult)
    /\ gPc' = "progress"
    /\ iPc' = "idle"
    /\ UNCHANGED <<storageVars, task_id, retries, source_url, iMetadata, parsed,
                   embedding, doc_id, exc, iResult, iFaults, kbBefore, outcomes,
                   source_urls, gI, progress, gSlots, nextTask, faults, embedVars>>

\* .get() raises the task's exception: except Exception as e
BatchItemFailed ==
    /\ gPc = "waiting"
    /\ iPc = "failed"
    /\ results' = RecordFailure(results, source_urls[gI + 1], exc[1])
    /\ gPc' = "progress"
    /\ iPc' = "idle"
    /\ UNCHANGED <<storageVars, task_id, retries, source_url, iMetadata, parsed,
                   embedding, doc_id, exc, iResult, iFaults, kbBefore, outcomes,
                   source_urls, gI, progress, gSlots, nextTask, faults, embedVars>>

\* self.update_state(state='PROGRESS', meta={'current': i + 1, 'total': ...}),
\* and the loop goes to the next item
BatchUpdateState ==
    /\ gPc = "progress"
    /\ progress' = Append(progress, [current |-> gI + 1, total |-> Len(source_urls)])
    /\ gI' = gI + 1
    /\ gPc' = "loop"
    /\ UNCHANGED <<storageVars, ingestVars, source_urls, results, gSlots, nextTask,
                   faults, embedVars>>

\* the list is exhausted: return results
BatchReturn ==
    /\ gPc = "loop"
    /\ gI >= Len(source_urls)
    /\ gPc' = "returned"
    /\ gSlots' = 0
    /\ UNCHANGED <<storageVars, ingestVars, source_urls, gI, results, progress,
                   nextTask, faults, embedVars>>

-----------------------------------------------------------------------------
\* rag_query, with the semantic_search it runs in place

\* semantic_search.apply(args=[question, 5, 0.6]): the limit
RagLimit == 5

\* semantic_search.apply(args=[question, 5, 0.6]): the threshold 0.6 in units of
\* 1/Scale, rounded down (a similarity is a whole number of units, so it is
\* above 0.6 exactly when it is above this)
RagThreshold == (6 * Scale) \div 10

\* doc["content_markdown"][:2000]
PassageLimit == 2000

\* the question argument
Question == [id |-> "What is X?", len |-> 10]

\* the model argument's default
Model == "gpt-4o"

\* the system_prompt arguments tried: None, the empty string, a custom prompt
SystemPrompts == {NoValue, Some(""), Some("custom")}

\* default_system, which holds the rule: if the context doesn't contain the
\* answer, say "I don't have enough information to answer that question."
DefaultSystem == "default_system"

\* what the completion provider may answer
InsufficientAnswer == "I don't have enough information to answer that question."
Answers == {InsufficientAnswer, "X is a kind of Y."}

\* the row search_similar_documents selects for a stored document at distance d
SearchRow(doc, d) ==
    [id |-> doc.id, filename |-> doc.filename,
     content_markdown |-> doc.content_markdown, metadata |-> doc.metadata,
     similarity |-> Similarity(d)]

\* [dict(row._mapping) for row in result] over the knowledge_base table
SearchRows(p, dist, table) == [i \in DOMAIN p |-> SearchRow(table[p[i]], dist[p[i]])]

\* the passage put in the context without the [:2000]
ContextPartWhole(doc) == doc.content_markdown

\* doc["content_markdown"][:2000]
ContextPart(doc) == Prefix(doc.content_markdown, PassageLimit)

\* {"id": str(doc["id"]), "filename": doc.get("filename"),
\*  "similarity": doc.get("similarity")}
SourceOf(doc) ==
    [id |-> Str(doc.id), filename |-> doc.filename, similarity |-> doc.similarity]

Separator == [id |-> "\n\n---\n\n", len |-> 7]

\* "\n\n---\n\n".join(context_parts), as the sequence of its pieces
Join(parts) ==
    [i \in 1..(IF parts = <<>> THEN 0 ELSE 2 * Len(parts) - 1) |->
        IF i % 2 = 1 THEN parts[(i + 1) \div 2] ELSE Separator]

\* system_prompt or default_system, with the default never used
SystemContentNoDefault(prompt) == IF prompt = NoValue THEN "" ELSE prompt[1]

\* system_prompt or default_system
SystemContent(prompt) ==
    IF prompt = NoValue \/ prompt = Some("") THEN DefaultSystem ELSE prompt[1]

\* the two messages sent to the completion provider
Messages(prompt, context, q) ==
    << [role |-> "system", content |-> SystemContent(prompt)],
       [role |-> "user", content |-> [context |-> context, question |-> q]] >>

\* the dictionary rag_query returns
RagResult(q, answer, srcs, msgs) ==
    [question |-> q, answer |-> answer, sources |-> srcs, model |-> Model,
     tokens |-> [total_tokens_of |-> msgs]]

\* the knowledge_base after ingest_document stored the sources urls, in order
RECURSIVE StoredCorpus(_)
StoredCorpus(urls) ==
    IF urls = <<>> THEN <<>>
    ELSE LET table == StoredCorpus(SubSeq(urls, 1, Len(urls) - 1))
             url == urls[Len(urls)]
             p == Parsed(url)
         IN  Append(table,
                    NewDocument(table, url, p.source_type, p.filename, p.markdown,
                                ProviderEmbedding(EmbeddingInput(EmbedText(p.markdown))),
                                Some(MergeMetadata(p.metadata, NoValue))))

\* the sources ingested before a question is asked: a.pdf, b.docx, a.pdf, ...
IngestedUrls(n) == [i \in 1..n |-> IF i % 2 = 1 THEN UrlA ELSE UrlB]

\* the stored corpora a question is asked against
Corpora == {StoredCorpus(IngestedUrls(n)) : n \in 0..MaxDocs}

\* the job rows the ingestions of urls left: the k-th task stored document k
\* and recorded success
StoredLedger(urls) ==
    {SetJobFields(NewJobRow(TaskId(k), JsonDumps([source_url |-> urls[k]])),
                  "success", Some(100), Some(IngestResult(Str(k), Parsed(urls[k]))),
                  NoValue, 0) : k \in 1..Len(urls)}

RagIdle ==
    /\ rPc = "idle"
    /\ system_prompt = NoValue
    /\ rDist = <<>>
    /\ search_results = <<>>
    /\ rK = 0
    /\ context_parts = <<>>
    /\ sources = <<>>
    /\ messages = NoValue
    /\ rResult = NoValue

\* rag_query(question, system_prompt=prompt) up to semantic_search's call of
\* generate_embedding(query)
CallRagQuery ==
    /\ rPc = "idle"
    /\ ePc = "idle"
    /\ iPc = "idle"
    /\ gPc = "idle"
    /\ \E prompt \in SystemPrompts : system_prompt' = prompt
    /\ StartEmbedding(Question)
    /\ rPc' = "embedding"
    /\ UNCHANGED <<rDist, search_results, rK, context_parts, sources, messages,
                   rResult, faults>>

\* generate_embedding raised after its last attempt: the exception leaves
\* semantic_search, .get() raises it again and it leaves rag_query
RagEmbedRaised ==
    /\ rPc = "embedding"
    /\ ePc = "raised"
    /\ rPc' = "raised"
    /\ UNCHANGED <<system_prompt, rDist, search_results, rK, context_parts, sources,
                   messages, rResult, faults, embedVars>>

\* search_similar_documents(query_embedding, 5, 0.6) returns its rows and its
\* session commits, and context_parts = [], sources = []
RagSearchOk ==
    /\ rPc = "embedding"
    /\ ePc = "returned"
    /\ \E dist \in [1..Len(knowledge_base) -> Distances] :
        \E p \in OrderedRows(dist, RagThreshold) :
            /\ rDist' = dist
            /\ search_results' = SearchRows(LimitRows(p, RagLimit), dist, knowledge_base)
    /\ job_status' = SearchEffect(Committed).job_status
    /\ knowledge_base' = SearchEffect(Committed).knowledge_base
    /\ rK' = 0
    /\ context_parts' = <<>>
    /\ sources' = <<>>
    /\ rPc' = "loop"
    /\ UNCHANGED <<system_prompt, messages, rResult, faults, embedVars, now>>

\* search_similar_documents raises: the exception leaves rag_query
RagSearchFail ==
    /\ rPc = "embedding"
    /\ ePc = "returned"
    /\ faults < MaxFaults
    /\ faults' = faults + 1
    /\ rPc' = "raised"
    /\ UNCHANGED <<system_prompt, rDist, search_results, rK, context_parts, sources,
                   messages, rResult, embedVars>>

\* one iteration of for doc in search_results
RagLoop ==
    /\ rPc = "loop"
    /\ rK < Len(search_results)
    /\ LET doc == search_results[rK + 1]
       IN  /\ context_parts' = Append(context_parts, ContextPart(doc))
           /\ sources' = Append(sources, SourceOf(doc))
    /\ rK' = rK + 1
    /\ UNCHANGED <<rPc, system_prompt, rDist, search_results, messages, rResult,
                   faults, embedVars>>

\* the context is joined, the messages are built, the completion provider
\* answers and the dictionary is returned
RagCompleteOk ==
    /\ rPc = "loop"
    /\ rK >= Len(search_results)
    /\ LET msgs == Messages(system_prompt, Join(context_parts), Question)
       IN  /\ messages' = Some(msgs)
           /\ \E answer \in Answers :
                rResult' = Some(RagResult(Question, answer, sources, msgs))
    /\ rPc' = "returned"
    /\ UNCHANGED <<system_prompt, rDist, search_results, rK, context_parts, sources,
                   faults, embedVars>>

\* client.chat.completions.create raises: the exception leaves rag_query
RagCompleteFail ==
    /\ rPc = "loop"
    /\ rK >= Len(search_results)
    /\ faults < MaxFaults
    /\ faults' = faults + 1
    /\ messages' = Some(Messages(system_prompt, Join(context_parts), Question))
    /\ rPc' = "raised"
    /\ UNCHANGED <<system_prompt, rDist, search_results, rK, context_parts, sources,
                   rResult, embedVars>>

OnlyRag ==
    UNCHANGED <<chunkVars, searchVars, batchEmbedVars, pipelineVars, sessionVars, raceVars>>

NextRag ==
    \/ (CallRagQuery /\ OnlyRag)
    \/ (EmbedAttemptOk /\ rPc = "embedding" /\ UNCHANGED ragVars /\ OnlyRag)
    \/ (EmbedAttemptFail /\ rPc = "embedding" /\ UNCHANGED ragVars /\ OnlyRag)
    \/ (RagEmbedRaised /\ OnlyRag)
    \/ (RagSearchOk /\ UNCHANGED <<chunkVars, searchVars, batchEmbedVars, ingestVars,
                                   batchVars, nextTask, sessionVars, raceVars>>)
    \/ (RagSearchFail /\ OnlyRag)
    \/ (RagLoop /\ OnlyRag)
    \/ (RagCompleteOk /\ OnlyRag)
    \/ (RagCompleteFail /\ OnlyRag)

-----------------------------------------------------------------------------
\* get_db_session around the body of each storage operation

\* the committed tables

\* the storage operations and the arguments ingest_document gives them
StorageOps ==
    {[kind |-> "upsert", id |-> TaskId(1), url |-> UrlB],
     [kind |-> "update", id |-> TaskId(1), status |-> "success"],
     [kind |-> "update", id |-> TaskId(1), status |-> "failed"],
     [kind |-> "insert", url |-> UrlA],
     [kind |-> "insert", url |-> UrlB],
     [kind |-> "search"]}

\* what the statement of op makes of the tables of the transaction it runs in
Effect(op, tables, t) ==
    IF op.kind = "upsert"
    THEN [tables EXCEPT !.job_status =
            UpsertJob(@, op.id, JsonDumps([source_url |-> op.url]), t)]
    ELSE IF op.kind = "update"
    THEN [tables EXCEPT !.job_status =
            IF op.status = "success"
            THEN UpdateJobStatus(@, op.id, "success", Some(100),
                                 Some(IngestResult(Str(1), Parsed(UrlB))), NoValue, t)
            ELSE UpdateJobStatus(@, op.id, "failed", NoValue, NoValue,
                                 Some(Str(FetchError)), t)]
    ELSE IF op.kind = "insert"
    THEN [tables EXCEPT !.knowledge_base =
            Append(@, NewDocument(@, op.url, Parsed(op.url).source_type,
                                  Parsed(op.url).filename, Parsed(op.url).markdown,
                                  ProviderEmbedding(EmbedText(Parsed(op.url).markdown)),
                                  Parsed(op.url).metadata))]
    ELSE SearchEffect(tables)

\* the with block left by an exception going on to session.commit() all the same
AfterBodyCommitAlways(raised) == "commit"

\* try: yield session; session.commit() / except Exception: session.rollback()
AfterBody(raised) == IF raised THEN "rollback" ELSE "commit"

\* an exception and the call that raised it
Raised(e, by) == [error |-> e, raised_by |-> by]

SessionIdle ==
    /\ dPc = "idle"
    /\ dOp = NoValue
    /\ dView = NoValue
    /\ dExc = NoValue
    /\ dCalls = <<>>
    /\ dBefore = NoValue
    /\ dSessions = 0

\* with get_db_session() as session: session = SessionLocal(); yield session
SessionEnter ==
    /\ dPc \in {"idle", "done"}
    /\ dSessions < MaxSessions
    /\ dSessions' = dSessions + 1
    /\ \E op \in StorageOps : dOp' = Some(op)
    /\ dView' = Some(Committed)
    /\ dBefore' = Some(Committed)
    /\ dExc' = NoValue
    /\ dCalls' = <<>>
    /\ dPc' = "body"
    /\ UNCHANGED <<storageVars, faults>>

\* the body of the with block runs its statement and completes
SessionBodyOk ==
    /\ dPc = "body"
    /\ dView' = Some(Effect(dOp[1], dView[1], now))
    /\ dPc' = AfterBody(FALSE)
    /\ UNCHANGED <<dOp, dExc, dCalls, dBefore, dSessions, storageVars, faults>>

\* the body raises, before its statement took effect or after it
SessionBodyFail ==
    /\ dPc = "body"
    /\ faults < MaxFaults
    /\ faults' = faults + 1
    /\ \E written \in BOOLEAN :
        dView' = IF written THEN Some(Effect(dOp[1], dView[1], now)) ELSE dView
    /\ dExc' = Some(Raised(StorageError, "body"))
    /\ dPc' = AfterBody(TRUE)
    /\ UNCHANGED <<dOp, dCalls, dBefore, dSessions, storageVars>>

\* the body is left by an exception that is no Exception (KeyboardInterrupt,
\* SystemExit): the except clause does not apply, the finally clause does
SessionBodyInterrupted ==
    /\ dPc = "body"
    /\ faults < MaxFaults
    /\ faults' = faults + 1
    /\ \E written \in BOOLEAN :
        dView' = IF written THEN Some(Effect(dOp[1], dView[1], now)) ELSE dView
    /\ dExc' = Some(Raised("BaseException", "body"))
    /\ dPc' = "close"
    /\ UNCHANGED <<dOp, dCalls, dBefore, dSessions, storageVars>>

\* session.commit() returns: the transaction's tables are the committed ones
SessionCommitOk ==
    /\ dPc = "commit"
    /\ job_status' = dView[1].job_status
    /\ knowledge_base' = dView[1].knowledge_base
    /\ dCalls' = Append(dCalls, "commit")
    /\ dPc' = "close"
    /\ UNCHANGED <<dOp, dView, dExc, dBefore, dSessions, now, faults>>

\* session.commit() raises: except Exception
SessionCommitFail ==
    /\ dPc = "commit"
    /\ faults < MaxFaults
    /\ faults' = faults + 1
    /\ dExc' = Some(Raised(StorageError, "commit"))
    /\ dPc' = "rollback"
    /\ UNCHANGED <<dOp, dView, dCalls, dBefore, dSessions, storageVars>>

\* session.rollback() returns: the transaction's writes are dropped; raise
SessionRollbackOk ==
    /\ dPc = "rollback"
    /\ dView' = Some(Committed)
    /\ dCalls' = Append(dCalls, "rollback")
    /\ dPc' = "close"
    /\ UNCHANGED <<dOp, dExc, dBefore, dSessions, storageVars, faults>>

\* session.rollback() raises: its exception goes on in place of the first,
\* through the finally clause
SessionRollbackFail ==
    /\ dPc = "rollback"
    /\ faults < MaxFaults
    /\ faults' = faults + 1
    /\ dExc' = Some(Raised(StorageError, "rollback"))
    /\ dPc' = "close"
    /\ UNCHANGED <<dOp, dView, dCalls, dBefore, dSessions, storageVars>>

\* finally: session.close(): the connection is released, what its transaction
\* had not committed is dropped
SessionClose ==
    /\ dPc = "close"
    /\ dView' = NoValue
    /\ dCalls' = Append(dCalls, "close")
    /\ dPc' = "done"
    /\ UNCHANGED <<dOp, dExc, dBefore, dSessions, storageVars, faults>>

OnlySession ==
    UNCHANGED <<chunkVars, searchVars, embedVars, batchEmbedVars, ingestVars,
                batchVars, nextTask, ragVars, raceVars>>

NextSession ==
    \/ (SessionEnter /\ OnlySession)
    \/ (SessionBodyOk /\ OnlySession)
    \/ (SessionBodyFail /\ OnlySession)
    \/ (SessionBodyInterrupted /\ OnlySession)
    \/ (SessionCommitOk /\ OnlySession)
    \/ (SessionCommitFail /\ OnlySession)
    \/ (SessionRollbackOk /\ OnlySession)
    \/ (SessionRollbackFail /\ OnlySession)
    \/ (SessionClose /\ OnlySession)

-----------------------------------------------------------------------------
\* Executions of ingest_document that run at the same time under one task id
\* (task_acks_late=True: a message not yet acknowledged can be delivered
\* again). Each execution writes to job_status through update_job_status and
\* the upsert, one statement per session, so every write is one atomic step;
\* the steps of different executions interleave freely.

MaxExecutions == 2

Executions == 1..MaxExecutions

\* self.request.id, the same in every execution
SharedTaskId == TaskId(1)

\* the source_url argument, the same in every execution
SharedUrl == UrlB

RaceIdle ==
    /\ wPc = [w \in Executions |-> "idle"]
    /\ wDocId = [w \in Executions |-> NoValue]
    /\ wExc = [w \in Executions |-> NoValue]
    /\ wWrites = <<>>

\* the message of the task reaches every worker
Deliver ==
    /\ \A w \in Executions : wPc[w] = "idle"
    /\ wPc' = [w \in Executions |-> "begin"]
    /\ UNCHANGED <<wDocId, wExc, wWrites, storageVars, faults>>

\* an external service fails in execution w: the exception e goes to pc
RaceFault(w, e, pc) ==
    /\ faults < MaxFaults
    /\ faults' = faults + 1
    /\ wExc' = [wExc EXCEPT ![w] = Some(e)]
    /\ wPc' = [wPc EXCEPT ![w] = pc]

\* the job upsert of execution w commits
RaceBeginOk(w) ==
    /\ wPc[w] = "begin"
    /\ job_status' = UpsertJob(job_status, SharedTaskId,
                               JsonDumps([source_url |-> SharedUrl]), now)
    /\ now' = now + 1
    /\ wWrites' = Append(wWrites, [by |-> w, status |-> "running"])
    /\ wPc' = [wPc EXCEPT ![w] = "body"]
    /\ UNCHANGED <<knowledge_base, wDocId, wExc, faults>>

\* the job upsert of execution w raises, outside the try block
RaceBeginFail(w) ==
    /\ wPc[w] = "begin"
    /\ RaceFault(w, StorageError, "done")
    /\ UNCHANGED <<storageVars, wDocId, wWrites>>

\* steps 1 to 3 of execution w: parse, embed, insert_document commits
RaceBodyOk(w) ==
    /\ wPc[w] = "body"
    /\ LET p == Parsed(SharedUrl)
           row == NewDocument(knowledge_base, SharedUrl, p.source_type, p.filename,
                              p.markdown,
                              ProviderEmbedding(EmbeddingInput(EmbedText(p.markdown))),
                              Some(MergeMetadata(p.metadata, NoValue)))
       IN  /\ knowledge_base' = Append(knowledge_base, row)
           /\ wDocId' = [wDocId EXCEPT ![w] = Str(row.id)]
    /\ wPc' = [wPc EXCEPT ![w] = "record"]
    /\ UNCHANGED <<job_status, now, wExc, wWrites, faults>>

\* one of steps 1 to 3 of execution w raises
RaceBodyFail(w) ==
    /\ wPc[w] = "body"
    /\ \E e \in {FetchError, EmbeddingError, StorageError} : RaceFault(w, e, "except")
    /\ UNCHANGED <<storageVars, wDocId, wWrites>>

\* update_job_status(status="success", ...) of execution w commits
RaceRecordSuccessOk(w) ==
    /\ wPc[w] = "record"
    /\ job_status' = UpdateJobStatus(job_status, SharedTaskId, "success", Some(100),
                                     Some(IngestResult(wDocId[w], Parsed(SharedUrl))),
                                     NoValue, now)
    /\ now' = now + 1
    /\ wWrites' = Append(wWrites, [by |-> w, status |-> "success"])
    /\ wPc' = [wPc EXCEPT ![w] = "done"]
    /\ UNCHANGED <<knowledge_base, wDocId, wExc, faults>>

\* the success update of execution w raises inside the try block
RaceRecordSuccessFail(w) ==
    /\ wPc[w] = "record"
    /\ RaceFault(w, StorageError, "except")
    /\ UNCHANGED <<storageVars, wDocId, wWrites>>

\* update_job_status(status="failed", error_message=str(e)) of execution w
\* commits; raise
RaceRecordFailureOk(w) ==
    /\ wPc[w] = "except"
    /\ job_status' = UpdateJobStatus(job_status, SharedTaskId, "failed", NoValue,
                                     NoValue, Some(Str(wExc[w][1])), now)
    /\ now' = now + 1
    /\ wWrites' = Append(wWrites, [by |-> w, status |-> "failed"])
    /\ wPc' = [wPc EXCEPT ![w] = "done"]
    /\ UNCHANGED <<knowledge_base, wDocId, wExc, faults>>

\* the failure update of execution w raises inside the handler
RaceRecordFailureFail(w) ==
    /\ wPc[w] = "except"
    /\ RaceFault(w, StorageError, "done")
    /\ UNCHANGED <<storageVars, wDocId, wWrites>>

OnlyRace ==
    UNCHANGED <<chunkVars, searchVars, embedVars, batchEmbedVars, ingestVars,
                batchVars, nextTask, ragVars, sessionVars>>

NextRace ==
    \/ (Deliver /\ OnlyRace)
    \/ (\E w \in Executions : RaceBeginOk(w) /\ OnlyRace)
    \/ (\E w \in Executions : RaceBeginFail(w) /\ OnlyRace)
    \/ (\E w \in Executions : RaceBodyOk(w) /\ OnlyRace)
    \/ (\E w \in Executions : RaceBodyFail(w) /\ OnlyRace)
    \/ (\E w \in Executions : RaceRecordSuccessOk(w) /\ OnlyRace)
    \/ (\E w \in Executions : RaceRecordSuccessFail(w) /\ OnlyRace)
    \/ (\E w \in Executions : RaceRecordFailureOk(w) /\ OnlyRace)
    \/ (\E w \in Executions : RaceRecordFailureFail(w) /\ OnlyRace)

-----------------------------------------------------------------------------
\* Next-state relations.

OnlyPipeline == UNCHANGED <<chunkVars, searchVars, batchEmbedVars, ragVars, sessionVars, raceVars>>

\* the steps of ingest_document, with the generate_embedding it calls
NextIngestBody ==
    \/ (IngestBeginOk /\ UNCHANGED <<batchVars, nextTask, embedVars>> /\ OnlyPipeline)
    \/ (IngestBeginFail /\ UNCHANGED <<batchVars, nextTask, embedVars>> /\ OnlyPipeline)
    \/ (IngestParseOk /\ UNCHANGED <<batchVars, nextTask, embedVars>> /\ OnlyPipeline)
    \/ (IngestParseUnreachable /\ UNCHANGED <<batchVars, nextTask, embedVars>> /\ OnlyPipeline)
    \/ (IngestParseFail /\ UNCHANGED <<batchVars, nextTask, embedVars>> /\ OnlyPipeline)
    \/ (IngestCallEmbed /\ UNCHANGED <<batchVars, nextTask>> /\ OnlyPipeline)
    \/ (EmbedAttemptOk /\ iPc = "embedding" /\ UNCHANGED pipelineVars /\ OnlyPipeline)
    \/ (EmbedAttemptFail /\ iPc = "embedding" /\ UNCHANGED pipelineVars /\ OnlyPipeline)
    \/ (IngestEmbedReturned /\ UNCHANGED <<batchVars, nextTask>> /\ OnlyPipeline)
    \/ (IngestEmbedRaised /\ UNCHANGED <<batchVars, nextTask>> /\ OnlyPipeline)
    \/ (IngestStoreOk /\ UNCHANGED <<batchVars, nextTask, embedVars>> /\ OnlyPipeline)
    \/ (IngestStoreFail /\ UNCHANGED <<batchVars, nextTask, embedVars>> /\ OnlyPipeline)
    \/ (IngestRecordSuccessOk /\ UNCHANGED <<batchVars, nextTask, embedVars>> /\ OnlyPipeline)
    \/ (IngestRecordSuccessFail /\ UNCHANGED <<batchVars, nextTask, embedVars>> /\ OnlyPipeline)
    \/ (IngestRecordFailureOk /\ UNCHANGED <<batchVars, nextTask, embedVars>> /\ OnlyPipeline)
    \/ (IngestRecordFailureFail /\ UNCHANGED <<batchVars, nextTask, embedVars>> /\ OnlyPipeline)
    \/ (IngestRetry /\ UNCHANGED <<batchVars, nextTask, embedVars>> /\ OnlyPipeline)
    \/ (IngestGiveUp /\ UNCHANGED <<batchVars, nextTask, embedVars>> /\ OnlyPipeline)

\* a worker running ingest_document tasks one after the other
Next ==
    \/ (SubmitIngest /\ OnlyPipeline)
    \/ NextIngestBody

\* a worker running one ingest_batch task
NextBatch ==
    \/ (SubmitBatch /\ OnlyPipeline)
    \/ (BatchCallIngest /\ OnlyPipeline)
    \/ (BatchItemSucceeded /\ OnlyPipeline)
    \/ (BatchItemFailed /\ OnlyPipeline)
    \/ (BatchUpdateState /\ OnlyPipeline)
    \/ (BatchReturn /\ OnlyPipeline)
    \/ NextIngestBody

-----------------------------------------------------------------------------
\* Specifications.

StorageEmpty ==
    /\ job_status = {}
    /\ knowledge_base = <<>>
    /\ now = 1

AllIdle ==
    /\ ChunkIdle
    /\ SearchIdle
    /\ EmbedIdle
    /\ BatchEmbedIdle
    /\ StorageEmpty
    /\ IngestIdle
    /\ BatchIdle
    /\ RagIdle
    /\ SessionIdle
    /\ RaceIdle
    /\ nextTask = 0
    /\ faults = 0

Init == AllIdle

Spec == Init /\ [][Next]_vars

SpecBatch == Init /\ [][NextBatch]_vars

SpecChunk == AllIdle /\ [][NextChunk]_vars

SpecSearch == AllIdle /\ [][NextSearch]_vars

SpecEmbed == AllIdle /\ [][NextEmbed]_vars

\* a question asked against a knowledge base that ingestions have filled
RagInit ==
    /\ ChunkIdle
    /\ SearchIdle
    /\ EmbedIdle
    /\ BatchEmbedIdle
    /\ IngestIdle
    /\ BatchIdle
    /\ RagIdle
    /\ SessionIdle
    /\ RaceIdle
    /\ \E n \in 0..MaxDocs :
        /\ knowledge_base = StoredCorpus(IngestedUrls(n))
        /\ job_status = StoredLedger(IngestedUrls(n))
    /\ now = 1
    /\ nextTask = 0
    /\ faults = 0

SpecRag == RagInit /\ [][NextRag]_vars

SpecSession == AllIdle /\ [][NextSession]_vars

SpecRace == AllIdle /\ [][NextRace]_vars

-----------------------------------------------------------------------------
\* Claims about chunk_text, checked under SpecChunk.

\* C4: for every text longer than maxSize and every 0 <= overlap < maxSize the
\* chunk start offsets are strictly increasing from one loop iteration to the
\* next (so the loop terminates), also when the boundary search shortens a chunk.
C4_StartsStrictlyIncreasing ==
    [][(cPc = "loop" /\ cChunks' # cChunks) => cStart' > cStart]_vars

\* C5: for every text with len(text) <= maxSize, chunk_text returns exactly one
\* chunk, equal to the text trimmed of leading and trailing whitespace.
C5_ShortTextOneTrimmedChunk ==
    (cPc = "returned" /\ Len(cText) <= chunk_size) => cChunks = <<Strip(cText)>>

\* C6: no emitted chunk is longer than maxSize plus the boundary-search window
\* (20% of maxSize).
C6_ChunkLengthBounded ==
    \A i \in 1..Len(cChunks) :
        Len(cChunks[i]) <= chunk_size + SearchWindow(chunk_size)

\* C6 witness: chunk_text returned from the loop, the boundary search shortened
\* one chunk and another chunk is exactly chunk_size long.
C6_Witness ==
    /\ cPc = "returned"
    /\ \E i \in 1..Len(cSpans) :
        /\ cSpans[i][1] + chunk_size < Len(cText)
        /\ cSpans[i][2] < cSpans[i][1] + chunk_size
    /\ \E j \in 1..Len(cChunks) : Len(cChunks[j]) = chunk_size

\* the cut just after the delimiter that lies in text[search_start:end] and is
\* nearest to end, or end when there is none
ClosestCut(text, search_start, end) ==
    LET cuts == {RFind(text, Seps[k], search_start, end) + Len(Seps[k]) :
                    k \in {j \in 1..Len(Seps) :
                              RFind(text, Seps[j], search_start, end) # -1}}
    IN  IF cuts = {} THEN end ELSE Max(cuts)

\* C21: every window that ends before the end of the text is cut just after the
\* delimiter ('. ', '.\n', '! ', '? ' or a blank line) that lies in the last 20%
\* of the window and is closest to the window's nominal end, and exactly at
\* maxSize when no delimiter lies there.
C21_CutAtClosestDelimiter ==
    \A i \in 1..Len(cSpans) :
        LET start == cSpans[i][1]
            nominal == start + chunk_size
        IN  nominal < Len(cText) =>
                cSpans[i][2] =
                    ClosestCut(cText, nominal - SearchWindow(chunk_size), nominal)

\* C29: when chunk_text returns for a text longer than chunk_size, the spans
\* [start, end) it cut cover the text without gaps: the first starts at 0, each
\* next one starts at or before the end of the one before it, the last reaches
\* the end of the text, and every character position lies in a span.
C29_SpansCoverText ==
    (cPc = "returned" /\ Len(cText) > chunk_size) =>
        /\ cSpans # <<>>
        /\ cSpans[1][1] = 0
        /\ \A i \in 1..(Len(cSpans) - 1) :
            /\ cSpans[i + 1][1] <= cSpans[i][2]
            /\ cSpans[i + 1][1] >= 0
        /\ cSpans[Len(cSpans)][2] >= Len(cText)
        /\ \A pos \in 0..(Len(cText) - 1) :
            \E i \in 1..Len(cSpans) : cSpans[i][1] <= pos /\ pos < cSpans[i][2]
        /\ \A i \in 1..Len(cSpans) :
            cChunks[i] = Strip(SubSeq(cText, cSpans[i][1] + 1, Min2(cSpans[i][2], Len(cText))))

\* C29 witness: chunk_text returned three spans or more, one of them cut short
\* by the boundary search and one starting before the end of its predecessor.
C29_Witness ==
    /\ cPc = "returned"
    /\ Len(cSpans) >= 3
    /\ \E i \in 1..Len(cSpans) :
        /\ cSpans[i][1] + chunk_size < Len(cText)
        /\ cSpans[i][2] < cSpans[i][1] + chunk_size
    /\ \E i \in 1..(Len(cSpans) - 1) : cSpans[i + 1][1] < cSpans[i][2]

-----------------------------------------------------------------------------
\* Claims about search_similar_documents, checked under SpecSearch.

\* C7: search never returns a row whose similarity (1 - distance) is <= the
\* threshold, and the rows come sorted by non-increasing similarity.
C7_AboveThresholdAndSorted ==
    sPc = "returned" =>
        /\ \A i \in 1..Len(sResults) : sResults[i].similarity > sThreshold
        /\ \A i, j \in 1..Len(sResults) :
            i < j => sResults[i].similarity >= sResults[j].similarity

\* C7 witness: a search returned two rows of different similarity while a
\* stored document whose similarity equals the threshold was left out.
C7_Witness ==
    /\ sPc = "returned"
    /\ Len(sResults) >= 2
    /\ sResults[1].similarity > sResults[2].similarity
    /\ \E d \in DOMAIN sDist : Similarity(sDist[d]) = sThreshold

\* C8: search returns at most limit rows, each a stored document's, and no
\* stored document that passes the threshold and was left out is strictly more
\* similar than a returned one; with limit = 0 nothing is returned.
C8_TopRankedWithinLimit ==
    sPc = "returned" =>
        LET returned == {sResults[i].id : i \in 1..Len(sResults)}
        IN  /\ Len(sResults) <= sLimit
            /\ returned \subseteq DOMAIN sDist
            /\ \A i \in 1..Len(sResults) :
                sResults[i].similarity = Similarity(sDist[sResults[i].id])
            /\ \A d \in DOMAIN sDist \ returned :
                Similarity(sDist[d]) > sThreshold =>
                    \A i \in 1..Len(sResults) :
                        Similarity(sDist[d]) <= sResults[i].similarity
            /\ sLimit = 0 => sResults = <<>>

\* C8 witness: the limit cut the result: a document that passes the threshold
\* was left out, and it is strictly less similar than a returned one.
C8_Witness ==
    /\ sPc = "returned"
    /\ sLimit >= 1
    /\ Len(sResults) = sLimit
    /\ \E d \in DOMAIN sDist :
        /\ \A i \in 1..Len(sResults) : sResults[i].id # d
        /\ Similarity(sDist[d]) > sThreshold
        /\ Similarity(sDist[d]) < sResults[1].similarity

-----------------------------------------------------------------------------
\* Claims about the embedding generator, checked under SpecEmbed.

\* C9: generate_embeddings_batch preserves order for every batch_size >= 1:
\* the list returned is as long as texts and its i-th element is the vector of
\* texts[i] truncated to the safe budget.
C9_BatchOrderPreserved ==
    bPc = "returned" =>
        /\ bResult # NoValue
        /\ Len(bResult[1]) = Len(bTexts)
        /\ \A i \in 1..Len(bTexts) :
            bResult[1][i] = ProviderEmbedding(Prefix(bTexts[i], MaxChars))

\* C9 witness: three different texts, one longer than the budget, embedded in
\* two groups (of two and of one).
C9_Witness ==
    /\ bPc = "returned"
    /\ Len(bTexts) = 3
    /\ batch_size = 2
    /\ Len(bSent) = 2
    /\ bTexts[1] # bTexts[2] /\ bTexts[2] # bTexts[3] /\ bTexts[1] # bTexts[3]
    /\ \E i \in 1..3 : bTexts[i].len > MaxChars

\* C10: generate_embedding calls the provider at most 3 times: no call follows
\* a successful one, whose vector is returned; after 3 failed calls an error is
\* raised and no vector is returned.
C10_AtMostThreeCalls ==
    /\ Len(eSent) <= MaxAttempts
    /\ \A i \in 1..Len(eSent) : eSent[i].ok => i = Len(eSent)
    /\ ePc = "returned" <=> (eSent # <<>> /\ eSent[Len(eSent)].ok)
    /\ ePc = "returned" => eResult = ProviderEmbedding(eSent[Len(eSent)].input)
    /\ ePc = "raised" <=>
        (Len(eSent) = MaxAttempts /\ \A i \in 1..Len(eSent) : ~eSent[i].ok)
    /\ ePc = "raised" => eResult = NoValue

\* C10 witness: the third call failed like the two before it, and the error
\* was raised.
C10_Witness ==
    /\ ePc = "raised"
    /\ Len(eSent) = 3

\* C22: when the provider fails on a group, generate_embeddings_batch calls it
\* for that group up to 3 times in total before the error is raised, as
\* generate_embedding does, and a batch that fails returns no partial list.
C22_BatchRetriesThreeTimes ==
    bPc = "raised" =>
        /\ Len(bSent) - (bI \div batch_size) = MaxAttempts
        /\ \A k \in (Len(bSent) - MaxAttempts + 1)..Len(bSent) :
            bSent[k] = TruncateAll(Group(bTexts, bI, batch_size))
        /\ bResult = NoValue

-----------------------------------------------------------------------------
\* Claims about rag_query, checked under SpecRag.

\* the context block of the user message sent to the completion provider
PromptContext == messages[1][2].content.context

\* the stored documents that pass the threshold of rag_query's search
Retrieved == {k \in DOMAIN rDist : Similarity(rDist[k]) > RagThreshold}

\* C14: in every answer rag_query returns, the sources list has one entry per
\* retrieved passage, in the order the passages stand in the prompt context,
\* which is the rank order of the search; each passage contributes at most 2000
\* characters to the context.
C14_SourcesMatchContext ==
    rPc = "returned" =>
        LET srcs == rResult[1].sources
            n == Len(srcs)
        IN  /\ n = Min2(RagLimit, Cardinality(Retrieved))
            /\ Len(PromptContext) = (IF n = 0 THEN 0 ELSE 2 * n - 1)
            /\ \A i, j \in 1..n : i # j => srcs[i].id # srcs[j].id
            /\ \A i, j \in 1..n : i < j => srcs[i].similarity >= srcs[j].similarity
            /\ \A i \in 1..n :
                \E k \in Retrieved :
                    /\ srcs[i].id = Str(knowledge_base[k].id)
                    /\ srcs[i].filename = knowledge_base[k].filename
                    /\ srcs[i].similarity = Similarity(rDist[k])
                    /\ PromptContext[2 * i - 1].id = knowledge_base[k].content_markdown.id
                    /\ PromptContext[2 * i - 1].len =
                        Min2(knowledge_base[k].content_markdown.len, PassageLimit)
            /\ \A i \in 1..n : PromptContext[2 * i - 1].len <= PassageLimit
            /\ \A i \in 1..(n - 1) : PromptContext[2 * i] = Separator

\* C14 witness: an answer with two sources of different similarity, the passage
\* of one cut to 2000 characters, and a third stored document not retrieved.
C14_Witness ==
    /\ rPc = "returned"
    /\ Len(knowledge_base) = 3
    /\ Len(rResult[1].sources) = 2
    /\ rResult[1].sources[1].similarity > rResult[1].sources[2].similarity
    /\ \E i \in 1..2 :
        /\ PromptContext[2 * i - 1].len = PassageLimit
        /\ search_results[i].content_markdown.len > PassageLimit

\* C15 as stated: rag_query with zero search results above the threshold returns
\* an answer whose text says the context is insufficient, with an empty sources
\* list.
C15_ZeroResultsInsufficient ==
    (rPc = "returned" /\ search_results = <<>>) =>
        /\ rResult[1].answer = InsufficientAnswer
        /\ rResult[1].sources = <<>>

\* C15 as amended: rag_query with zero search results above the threshold sends
\* the completion provider an empty context block, with the default system
\* instruction (which tells the model to say it lacks the information) unless a
\* non-empty system prompt was supplied, and returns an empty sources list.
C15_ZeroResultsEmptyContext ==
    (rPc = "returned" /\ search_results = <<>>) =>
        /\ rResult[1].sources = <<>>
        /\ PromptContext = <<>>
        /\ messages[1][2].content.question = Question
        /\ messages[1][1].content =
            (IF system_prompt \in {NoValue, Some("")} THEN DefaultSystem
             ELSE system_prompt[1])

\* C15 witness: documents are stored, none passes the threshold, no system
\* prompt was supplied, and the provider's answer was returned.
C15_Witness ==
    /\ rPc = "returned"
    /\ knowledge_base # <<>>
    /\ search_results = <<>>
    /\ system_prompt = NoValue
    /\ rResult[1].answer = InsufficientAnswer

\* C30: semantic_search and rag_query are read-only: whatever their inputs and
\* whether they return or raise, no step of theirs creates, changes or deletes
\* a row of job_status or of knowledge_base.
C30_QueriesReadOnly ==
    [][job_status' = job_status /\ knowledge_base' = knowledge_base]_vars

\* C30 witness: rag_query returned an answer with sources, its search having
\* run and committed over stored documents and the job rows of their tasks.
C30_Witness ==
    /\ rPc = "returned"
    /\ Len(sources) >= 2
    /\ Len(knowledge_base) >= 2
    /\ Cardinality(job_status) = Len(knowledge_base)
    /\ \A r \in job_status : r.status = "success"

-----------------------------------------------------------------------------
\* Claims about get_db_session, checked under SpecSession.

\* C19: every storage operation runs in a unit of work that commits exactly when
\* its body completes normally, rolls back on an error exit (a failing commit
\* included) and closes the session on every path, so that the committed tables
\* are never anything but the tables before the operation or the tables with
\* its whole effect.
C19_UnitOfWork ==
    /\ dPc # "idle" =>
        \/ Committed = dBefore[1]
        \/ /\ Committed = Effect(dOp[1], dBefore[1], now)
           /\ dExc = NoValue
           /\ dPc \in {"close", "done"}
    /\ dPc = "done" =>
        /\ dCalls[Len(dCalls)] = "close"
        /\ dView = NoValue
        /\ IF dExc = NoValue
           THEN /\ dCalls = <<"commit", "close">>
                /\ Committed = Effect(dOp[1], dBefore[1], now)
           ELSE /\ \A i \in 1..Len(dCalls) : dCalls[i] # "commit"
                /\ Committed = dBefore[1]
    /\ (dPc = "close" /\ dExc # NoValue /\ dExc[1].error # "BaseException") =>
        \/ dCalls = <<"rollback">> /\ dView[1] = dBefore[1]
        \/ dCalls = <<>> /\ dExc[1].raised_by = "rollback"
    /\ \A i \in 1..Len(dCalls) : dCalls[i] = "close" => i = Len(dCalls)

\* C19 witness: an insert whose commit failed was rolled back and its session
\* closed, the knowledge base being as it was before.
C19_Witness ==
    /\ dPc = "done"
    /\ dOp[1].kind = "insert"
    /\ dExc # NoValue
    /\ dExc[1].raised_by = "commit"
    /\ dCalls = <<"rollback", "close">>
    /\ Committed = dBefore[1]
    /\ Effect(dOp[1], dBefore[1], now) # dBefore[1]

-----------------------------------------------------------------------------
\* Claims about ingest_batch, checked under SpecBatch.

\* C1: ingest_batch isolates per-item failure: whichever items fail, the batch
\* ingests every item and returns total = N, success = the number of items whose
\* ingestion succeeded, failed = the number whose ingestion failed, and N
\* per-item entries in input order.
C1_BatchIsolatesFailures ==
    gPc = "returned" =>
        LET n == Len(source_urls)
            succeeded == {i \in 1..Len(outcomes) : outcomes[i].ok}
            failedItems == {i \in 1..Len(outcomes) : ~outcomes[i].ok}
        IN  /\ Len(outcomes) = n
            /\ results.total = n
            /\ results.success = Cardinality(succeeded)
            /\ results.failed = Cardinality(failedItems)
            /\ results.success + results.failed = results.total
            /\ Len(results.documents) = n
            /\ \A i \in 1..n :
                /\ outcomes[i].url = source_urls[i]
                /\ IF outcomes[i].ok
                   THEN /\ results.documents[i].status = "success"
                        /\ \E k \in 1..Len(knowledge_base) :
                            /\ Str(knowledge_base[k].id) = results.documents[i].document_id
                            /\ knowledge_base[k].source_url = source_urls[i]
                   ELSE /\ results.documents[i].status = "failed"
                        /\ results.documents[i].source_url = source_urls[i]

\* C1 witness: a batch of two returned after its first item failed and its
\* second succeeded.
C1_Witness ==
    /\ gPc = "returned"
    /\ Len(source_urls) = 2
    /\ ~outcomes[1].ok
    /\ outcomes[2].ok
    /\ results.success = 1
    /\ results.failed = 1

\* C16: after each item, succeeded or failed, ingest_batch reports progress
\* (completedCount, total) to the Job Ledger under the batch's own task id, the
\* completedCount going up by one per item from 1 to total.
C16_ProgressInLedger ==
    /\ \A k \in 1..Len(progress) :
        progress[k] = [current |-> k, total |-> Len(source_urls)]
    /\ gPc = "returned" => Len(progress) = Len(source_urls)
    /\ progress # <<>> =>
        \E r \in JobsOf(BatchTaskId) : r.progress = Some(progress[Len(progress)])

\* C17: ingest_batch works through its items one at a time in input order: the
\* ingestions started are at most one more than those ended, and while item
\* i + 1 is being ingested the outcomes of items 1..i are in the per-item
\* results and their progress has been reported.
C17_Sequential ==
    /\ nextTask - Len(outcomes) \in {0, 1}
    /\ iPc \notin {"idle", "returned", "failed"} =>
        /\ gPc = "waiting"
        /\ nextTask = gI + 1
        /\ Len(outcomes) = gI
        /\ Len(results.documents) = gI
        /\ Len(progress) = gI
        /\ source_url = source_urls[gI + 1]
    /\ \A k \in 1..Len(outcomes) :
        /\ outcomes[k].task = TaskId(k)
        /\ outcomes[k].url = source_urls[k]

\* C17 witness: the second item of a batch is being ingested after the first
\* item failed.
C17_Witness ==
    /\ gPc = "waiting"
    /\ gI = 1
    /\ iPc = "store"
    /\ Len(outcomes) = 1
    /\ ~outcomes[1].ok

\* the steps one execution of the body of ingest_document has before it, at most
BodyRank ==
    IF iPc = "begin" THEN MaxAttempts + 9
    ELSE IF iPc = "parse" THEN MaxAttempts + 8
    ELSE IF iPc = "embed" THEN MaxAttempts + 7
    ELSE IF iPc = "embedding"
    THEN (IF ePc = "calling" THEN MaxAttempts + 6 - eAttempt ELSE 6)
    ELSE IF iPc = "store" THEN 5
    ELSE IF iPc = "record" THEN 4
    ELSE IF iPc = "except" THEN 3
    ELSE IF iPc = "raised" THEN 2
    ELSE IF iPc \in {"returned", "failed"} THEN 1
    ELSE 0

\* the steps the task of the current item has before it, retries included
TaskRank ==
    IF iPc = "idle" THEN 0
    ELSE (MaxRetries - retries) * (MaxAttempts + 10) + BodyRank

\* the steps a batch has before it: a number every step of a batch lowers
BatchRank ==
    LET perItem == (MaxRetries + 1) * (MaxAttempts + 10) + 4
    IN  IF gPc = "loop" THEN (Len(source_urls) - gI) * perItem + 1
        ELSE IF gPc = "waiting" THEN (Len(source_urls) - gI - 1) * perItem + 2 + TaskRank
        ELSE IF gPc = "progress" THEN (Len(source_urls) - gI - 1) * perItem + 2
        ELSE 0

\* C18: ingest_batch runs each ingestion in the slot it holds itself and never
\* waits for work that needs another slot of the pool, so with a pool of one
\* slot a batch of any length runs to completion: until it has returned some
\* step of it can always be taken, and every step brings the return nearer.
C18_NoNestedDispatch ==
    /\ [](gSlots <= Concurrency)
    /\ [](gPc = "waiting" => (gSlots = 1 /\ iPc # "idle"))
    /\ [](gPc \in {"loop", "waiting", "progress"} => ENABLED NextBatch)
    /\ [][gPc # "idle" => (BatchRank' < BatchRank /\ BatchRank' >= 0)]_vars

\* C18 witness: a batch of two items returned and gave its slot back.
C18_Witness ==
    /\ gPc = "returned"
    /\ Len(source_urls) = MaxBatch
    /\ Len(outcomes) = MaxBatch
    /\ gSlots = 0

\* C11: whatever ingestions and retries have run, the job ledger holds at most
\* one row per task id: running a task again under a recorded id updates its
\* row.
C11_OneRowPerTask ==
    \A r1, r2 \in job_status : r1.celery_task_id = r2.celery_task_id => r1 = r2

\* C11 witness: the ledger holds the rows of two tasks, and the second task's
\* body, run again after a recorded failure, has passed the job upsert.
C11_Witness ==
    /\ Cardinality(job_status) = 2
    /\ retries >= 1
    /\ iPc = "parse"
    /\ \E r \in JobsOf(task_id) : r.status = "running" /\ r.completed_at # NoValue

-----------------------------------------------------------------------------
\* Claims about ingest_document, checked under Spec.

\* the status changes the claim allows
AllowedTransitions ==
    {<<"pending", "running">>, <<"running", "success">>, <<"running", "failed">>,
     <<"success", "running">>, <<"failed", "running">>}

\* C24: the job upsert of ingest_document on a task id that has a row resets
\* that row's status to running and its start time and leaves its task kind,
\* input payload, result payload, error message, progress and completion time,
\* and every other row, as they were; on a task id with no row it adds one row
\* with status running.
C24_BeginResetsStatusOnly ==
    [][(iPc = "begin" /\ iPc' = "parse") =>
        IF JobsOf(task_id) # {}
        THEN \E r \in job_status : \E q \in job_status' :
                /\ r.celery_task_id = task_id
                /\ job_status' = (job_status \ {r}) \cup {q}
                /\ q = [r EXCEPT !.status = q.status, !.started_at = q.started_at]
                /\ q.status = "running"
                /\ q.started_at = Some(now)
        ELSE \E q \in job_status' :
                /\ q \notin job_status
                /\ job_status' = job_status \cup {q}
                /\ q.celery_task_id = task_id
                /\ q.status = "running"]_vars

\* C24 witness: the upsert of a retry has just restarted a failed row that
\* carries an error message, next to the row of another task.
C24_Witness ==
    /\ iPc = "parse"
    /\ retries >= 1
    /\ \E r \in JobsOf(task_id) :
        r.status = "running" /\ r.error_message # NoValue /\ r.completed_at # NoValue
    /\ \E r \in job_status : r.celery_task_id # task_id

C13_LeavesRunning ==
    /\ iPc = "returned" =>
        \A r \in JobsOf(task_id) :
            /\ r.status = "success"
            /\ r.result_data = Some(iResult)
            /\ iResult.document_id = doc_id
    /\ iPc = "failed" =>
        \A r \in JobsOf(task_id) :
            /\ r.status = "failed"
            /\ r.error_message # NoValue

\* C20: the metadata stored with a document has every key of the extracted and
\* of the caller-supplied metadata, the caller's value for a key of both, and is
\* the extracted metadata when the caller supplied none.
C20_MetadataMerged ==
    doc_id # NoValue =>
        \A k \in 1..Len(knowledge_base) :
            Str(knowledge_base[k].id) = doc_id =>
                LET stored == knowledge_base[k].metadata
                    extracted == OrEmpty(parsed.metadata)
                    supplied == OrEmpty(iMetadata)
                IN  /\ DOMAIN stored = DOMAIN extracted \cup DOMAIN supplied
                    /\ \A key \in DOMAIN supplied : stored[key] = supplied[key]
                    /\ \A key \in DOMAIN extracted \ DOMAIN supplied :
                        stored[key] = extracted[key]
                    /\ iMetadata = NoValue => stored = extracted

\* C20 witness: a document was stored for a caller whose metadata has a key the
\* extracted metadata has too, and a key of its own.
C20_Witness ==
    /\ iPc = "returned"
    /\ iMetadata # NoValue
    /\ DOMAIN OrEmpty(iMetadata) \cap DOMAIN OrEmpty(parsed.metadata) # {}
    /\ DOMAIN OrEmpty(iMetadata) \ DOMAIN OrEmpty(parsed.metadata) # {}
    /\ knowledge_base[Len(knowledge_base)].metadata.title = "supplied"

\* C23: ingest_document sends the embedding provider exactly the first 8000
\* characters of the parsed markdown (all of it when it is shorter), while the
\* stored document holds the whole markdown and a character count equal to the
\* length of the stored content.
C23_EmbedsPrefixStoresWhole ==
    /\ (iPc \in {"embedding", "store", "record", "returned"} /\ parsed # NoValue) =>
        \A i \in 1..Len(eSent) :
            /\ eSent[i].input.id = parsed.markdown.id
            /\ eSent[i].input.len = Min2(parsed.markdown.len, EmbedLimit)
    /\ iPc \in {"store", "record", "returned"} => eSent # <<>>
    /\ \A k \in 1..Len(knowledge_base) :
        /\ knowledge_base[k].content_markdown = Markdown(knowledge_base[k].source_url)
        /\ knowledge_base[k].char_count = knowledge_base[k].content_markdown.len

\* C23 witness: a markdown of 8001 characters was ingested: 8000 of them were
\* sent to the provider and 8001 were stored and counted.
C23_Witness ==
    /\ iPc = "returned"
    /\ parsed.markdown.len = EmbedLimit + 1
    /\ eSent[Len(eSent)].input.len = EmbedLimit
    /\ knowledge_base[Len(knowledge_base)].content_markdown.len = EmbedLimit + 1
    /\ knowledge_base[Len(knowledge_base)].char_count = EmbedLimit + 1

\* C26: over all the attempts of one ingestion task (the first execution and
\* the automatic retries under the same task id) at most one document is
\* stored, a retry never following an attempt that stored one: as documents
\* are stored by ingestion tasks only, there are never more documents than
\* tasks started.
C26_OneDocumentPerTask ==
    Len(knowledge_base) <= nextTask

\* C27: a job row with status success has a result payload whose document_id
\* is the id of a document that is in knowledge_base.
C27_SuccessNamesStoredDocument ==
    \A r \in job_status :
        r.status = "success" =>
            /\ r.result_data # NoValue
            /\ \E k \in 1..Len(knowledge_base) :
                Str(knowledge_base[k].id) = r.result_data[1].document_id

\* C27 witness: a retry, after an attempt that stored nothing, stored a
\* document and recorded success.
C27_Witness ==
    /\ iPc = "returned"
    /\ retries >= 1
    /\ Len(knowledge_base) = 1
    /\ \E r \in JobsOf(task_id) :
        r.status = "success" /\ r.result_data = Some(iResult)

\* C28: a job row with status success carries no error message: the message of
\* a failed attempt is not left on the row when a retry succeeds.
C28_SuccessHasNoError ==
    \A r \in job_status : r.status = "success" => r.error_message = NoValue

\* C25: when executions of one task id run at the same time and their ledger
\* writes interleave in any order, job_status holds one row for the task id
\* from the first write on, never more, and its status is the one of the write
\* committed last (after all have finished as well as before); a status is
\* always one of running, success and failed.
C25_LastWriteWins ==
    /\ Cardinality(JobsOf(SharedTaskId)) <= 1
    /\ \A r \in job_status : r.status \in {"running", "success", "failed"}
    /\ wWrites # <<>> =>
        /\ Cardinality(JobsOf(SharedTaskId)) = 1
        /\ \A r \in JobsOf(SharedTaskId) : r.status = wWrites[Len(wWrites)].status

\* C25 witness: two executions have finished; the first to begin wrote failed
\* after the other had written success, and the row is failed.
C25_Witness ==
    /\ \A w \in Executions : wPc[w] = "done"
    /\ Len(wWrites) = 4
    /\ wWrites[1].by = wWrites[4].by
    /\ wWrites[2].by # wWrites[1].by
    /\ wWrites[3].status = "success"
    /\ wWrites[4].status = "failed"
    /\ \E r \in JobsOf(SharedTaskId) : r.status = "failed" /\ r.result_data # NoValue

\* C2: whichever step fails (a job ledger write included), an execution of ingest
\* that ends in success has created exactly one Document row and one that ends
\* in failure has created none, so a failed Job never comes with a Document
\* created by that ingestion.
C2_DocumentIffSuccess ==
    /\ iPc = "returned" => Len(knowledge_base) = kbBefore + 1
    /\ iPc = "raised" => Len(knowledge_base) = kbBefore

\* C3: when the embedding provider fails 3 times in a row the ingestion ends with
\* no Document row stored (insert_document is never reached) and, the failure
\* update having been written, with a Job row whose status is failed and whose
\* error message is that of the embedding error.
C3_EmbeddingFailureRecorded ==
    (iPc = "raised" /\ "embed" \in iFaults) =>
        /\ Len(knowledge_base) = kbBefore
        /\ doc_id = NoValue
        /\ "record_failure" \notin iFaults =>
            /\ JobsOf(task_id) # {}
            /\ \A r \in JobsOf(task_id) :
                /\ r.status = "failed"
                /\ r.error_message = Some(Str(EmbeddingError))

\* C3 witness: three provider calls failed, nothing else did, and the body ended
\* by raising.
C3_Witness ==
    /\ iPc = "raised"
    /\ iFaults = {"embed"}
    /\ Len(eSent) = MaxAttempts
    /\ \A i \in 1..Len(eSent) : ~eSent[i].ok
    /\ \E r \in JobsOf(task_id) : r.status = "failed"

====
